---- MODULE Spec2Model ----
(***************************************************************************)
(* A model of noah's semantic search and ingestion engine:                 *)
(*   - process_stdin_events (src/src/main.rs), the ingestion loop of the   *)
(*     `add` subcommand, run by up to two independent processes that       *)
(*     share one store;                                                    *)
(*   - search_events (src/src/discovery/search.rs), the search handler,    *)
(*     with the two SQL statements it builds and the store's answer to     *)
(*     them;                                                               *)
(*   - cloudflare::generate_embedding (src/src/discovery/embedding.rs),    *)
(*     the embedding client the search handler calls.                      *)
(* Standard input and output are taken to be reliable; the store and the   *)
(* embedding provider may fail at every call.                              *)
(***************************************************************************)
EXTENDS Integers, Sequences, FiniteSets, TLC

(* ------------------------------ bounds --------------------------------- *)

\* Lines on the standard input of each ingestion process.
MaxLines == 2

\* Embedding vectors are the points 0..MaxVec of a line.
MaxVec == 1

(* --------------------------- the data model ---------------------------- *)

Streams == {1, 2}

NoVec == -1

Vectors == 0..MaxVec

\* A tag document is a set of tags; the input events below use these.
NoTags == {}

\* struct NostrEvent
NostrEvent(id, pubkey, created_at, kind, content, tags) ==
    [id |-> id, pubkey |-> pubkey, created_at |-> created_at, kind |-> kind,
     content |-> content, tags |-> tags]

NoEvent == NostrEvent("", "", 0, 0, "", NoTags)

\* The events the input lines carry: two different events under the id e1,
\* a second text note, and an event that is no text note.
Events ==
    { NostrEvent("e1", "p1", 100, 1, "hello world", NoTags),
      NostrEvent("e1", "p2", 200, 1, "bye", {"t"}),
      NostrEvent("e2", "p2", 200, 1, "bye", {"t"}),
      NostrEvent("e3", "p1", 300, 7, "hello world", {"t"}) }

\* A line of input: a NostrEvent object, a PluginInput object wrapping one,
\* or text that is neither.
Lines ==
    [shape : {"NostrEvent", "PluginInput"}, event : Events]
        \cup {[shape |-> "garbage", event |-> NoEvent]}

\* main.rs:375-405, serde_json::from_str::<NostrEvent> in direct mode and
\* ::<PluginInput> otherwise: whether the line parses.
ParseOk(isDirect, line) ==
    line.shape = (IF isDirect THEN "NostrEvent" ELSE "PluginInput")

\* The INSERT with NULL bound to the embedding column.
Row_NoEmbedding(ev, emb) ==
    [id |-> ev.id, pubkey |-> ev.pubkey, created_at |-> ev.created_at,
     kind |-> ev.kind, content |-> ev.content, tags |-> ev.tags,
     embedding |-> NoVec]

\* A row of nostr_search.events: the bound values of the INSERT.
Row(ev, emb) ==
    [id |-> ev.id, pubkey |-> ev.pubkey, created_at |-> ev.created_at,
     kind |-> ev.kind, content |-> ev.content, tags |-> ev.tags,
     embedding |-> emb]

(* ------------------------------ the state ------------------------------ *)

VARIABLES
    store,      \* the table nostr_search.events, a sequence of rows
    direct,     \* direct[s]: the --direct flag of process s
    lines,      \* lines[s]: the number of lines on its standard input
    pc,         \* pc[s]: where process s is in process_stdin_events
    nread,      \* nread[s]: lines read so far
    event,      \* event[s]: the event of the current line
    embedding,  \* embedding[s]: the vector generate_embedding returned
    stdout,     \* stdout[s]: what process s has written to standard output
    stderr,     \* stderr[s]: what process s has written to standard error
    nparsed,    \* nparsed[s]: history, lines read that parsed
    dup,        \* dup[s]: history, the id was stored when the line was read
    written,    \* written[id]: history, the first row inserted under id
    spc,            \* spc[h]: where search handler h is in search_events
    search_query,   \* search_query[h]: its request
    limit,          \* limit[h], offset[h]: the request's, or the defaults
    offset,
    embedding_vec,  \* embedding_vec[h]: the vector of the query text
    qb,             \* qb[h]: the ranked statement
    results,        \* results[h]: the rows the ranked statement returned
    count_qb,       \* count_qb[h]: the count statement
    response,       \* response[h]: what search_events returned
    ranked_at,      \* ranked_at[h]: history, Len(store) at the ranked statement
    counted_at,     \* counted_at[h]: history, Len(store) at the count statement
    provider,       \* provider[h]: history, the provider's reply to the handler
    ops             \* ops[h]: history, the statements the store has answered

ingest == <<direct, lines, pc, nread, nparsed, event, embedding, stdout, stderr, dup>>

search == <<spc, search_query, limit, offset, embedding_vec, qb, results,
            count_qb, response, ranked_at, counted_at, provider, ops>>

vars == <<store, written, ingest, search>>

Ids == {e.id : e \in Events}

NoRow == Row(NoEvent, NoVec)

\* SELECT EXISTS(SELECT 1 FROM nostr_search.events WHERE id = $1)
Exists(s, id) == \E i \in 1..Len(s) : s[i].id = id

RowsOf(s, id) == {i \in 1..Len(s) : s[i].id = id}

\* The primary key of nostr_search.events: an INSERT of a stored id fails.
UniqueViolation(s, row) == Exists(s, row.id)

\* What the processes write.
Ack(id) == [id |-> id, action |-> "accept"]

Msg(text, id) == [msg |-> text, id |-> id]

(* ---------------------- process_stdin_events --------------------------- *)


\* main.rs:387-396: the accept response of plugin mode, written as soon as
\* the line has parsed; direct mode writes none.
AcceptResponse_None(isDirect, out, id) == out

AcceptResponse(isDirect, out, id) ==
    IF isDirect THEN out ELSE Append(out, Ack(id))

\* The next line taken while the last one is still being processed.
LoopTakesNext_Pipelined(at) == at \in {"read", "exists", "embed", "insert"}

\* main.rs:371,441: the loop takes the next line when its body has ended.
LoopTakesNext(at) == at = "read"

\* main.rs:371-405: read a line, parse it, and in plugin mode write the
\* accept response; a line that does not parse is logged and skipped.
ReadLine(s) ==
    /\ UNCHANGED search
    /\ LoopTakesNext(pc[s])
    /\ nread[s] < lines[s]
    /\ \E line \in Lines :
         /\ nread' = [nread EXCEPT ![s] = @ + 1]
         /\ IF ~ParseOk(direct[s], line)
              THEN /\ stderr' = [stderr EXCEPT ![s] =
                          Append(@, Msg(IF direct[s] THEN "Error parsing NostrEvent"
                                                     ELSE "Error parsing PluginInput", ""))]
                   /\ UNCHANGED <<pc, nparsed, event, dup, stdout>>
              ELSE /\ nparsed' = [nparsed EXCEPT ![s] = @ + 1]
                   /\ event' = [event EXCEPT ![s] = line.event]
                   /\ dup' = [dup EXCEPT ![s] = Exists(store, line.event.id)]
                   /\ stdout' = [stdout EXCEPT ![s] =
                          AcceptResponse(direct[s], @, line.event.id)]
                   /\ pc' = [pc EXCEPT ![s] = "exists"]
                   /\ UNCHANGED stderr
    /\ UNCHANGED <<store, written, direct, lines, embedding>>

\* Status lines written in plugin mode too.
Report_Always(isDirect, out, text, id) == Append(out, Msg(text, id))

\* main.rs:432-433,438-439, `else if direct { println!(..) }`: a status line
\* is written to standard output in direct mode alone.
Report(isDirect, out, text, id) ==
    IF isDirect THEN Append(out, Msg(text, id)) ELSE out

\* main.rs:371,443: the input has ended, the function returns Ok(()).
EndOfInput(s) ==
    /\ UNCHANGED search
    /\ pc[s] = "read"
    /\ nread[s] = lines[s]
    /\ pc' = [pc EXCEPT ![s] = "done"]
    /\ UNCHANGED <<store, written, direct, lines, nread, nparsed, event, embedding,
                   stdout, stderr, dup>>

\* main.rs:371,441: the body of the loop ends and its locals are dropped;
\* the process goes to `to`.
EndLine(s, to) ==
    /\ pc' = [pc EXCEPT ![s] = to]
    /\ event' = [event EXCEPT ![s] = NoEvent]
    /\ embedding' = [embedding EXCEPT ![s] = NoVec]
    /\ dup' = [dup EXCEPT ![s] = FALSE]

\* main.rs:413, `.await?` on a failed query: the function returns the error.
OnExistsError == "aborted"

\* main.rs:408-413: the existence query fails.
ExistsCheckErr(s) ==
    /\ UNCHANGED search
    /\ pc[s] = "exists"
    /\ EndLine(s, OnExistsError)
    /\ UNCHANGED <<store, written, direct, lines, nread, nparsed, stdout, stderr>>

\* main.rs:415, the branch taken after the existence check.
ShouldEmbed_IgnoreExists(exists, ev) == ev.kind = 1

ShouldEmbed_AnyKind(exists, ev) == ~exists

ShouldEmbed(exists, ev) == ~exists /\ ev.kind = 1

\* main.rs:408-415,438-440: the existence query answers.
ExistsCheck(s) ==
    /\ UNCHANGED search
    /\ pc[s] = "exists"
    /\ LET exists == Exists(store, event[s].id) IN
         IF ShouldEmbed(exists, event[s])
           THEN /\ pc' = [pc EXCEPT ![s] = "embed"]
                /\ UNCHANGED <<event, embedding, dup, stdout>>
           ELSE /\ EndLine(s, "read")
                /\ stdout' = [stdout EXCEPT ![s] =
                       Report(direct[s], @, "already exists, skipping", event[s].id)]
    /\ UNCHANGED <<store, written, direct, lines, nread, nparsed, stderr>>

\* main.rs:416: generate_embedding returns a vector.
EmbedOk(s) ==
    /\ UNCHANGED search
    /\ pc[s] = "embed"
    /\ \E v \in Vectors : embedding' = [embedding EXCEPT ![s] = v]
    /\ pc' = [pc EXCEPT ![s] = "insert"]
    /\ UNCHANGED <<store, written, direct, lines, nread, nparsed, event, stdout,
                   stderr, dup>>

\* main.rs:435-437, the else branch of `if let Ok(embedding)`: where the
\* process goes.
OnEmbedError_Retry == "embed"

OnEmbedError == "read"

\* The event stored without a vector when it could not be embedded.
StoreAfterEmbedError_NoVector(s, ev) ==
    IF Exists(s, ev.id) THEN s ELSE Append(s, Row(ev, NoVec))

\* main.rs:435-437: the else branch only logs; the table is as it was.
StoreAfterEmbedError(s, ev) == s

\* main.rs:416,435-437: generate_embedding returns an error.
EmbedErr(s) ==
    /\ UNCHANGED search
    /\ pc[s] = "embed"
    /\ stderr' = [stderr EXCEPT ![s] =
           Append(@, Msg("Failed to generate embedding", event[s].id))]
    /\ store' = StoreAfterEmbedError(store, event[s])
    /\ EndLine(s, OnEmbedError)
    /\ UNCHANGED <<written, direct, lines, nread, nparsed, stdout>>

\* INSERT .. ON CONFLICT (id) DO UPDATE: a stored row of the id is replaced.
InsertRow_Upsert(s, row) ==
    IF Exists(s, row.id)
      THEN [i \in 1..Len(s) |-> IF s[i].id = row.id THEN row ELSE s[i]]
      ELSE Append(s, row)

\* The store's answer to the INSERT of row: the table afterwards, which is
\* the table before when the primary key refuses the row.
InsertRow(s, row) == IF UniqueViolation(s, row) THEN s ELSE Append(s, row)

\* main.rs:418-434: the INSERT succeeds.
InsertOk(s) ==
    /\ UNCHANGED search
    /\ pc[s] = "insert"
    /\ LET row == Row(event[s], embedding[s]) IN
         /\ InsertRow(store, row) # store
         /\ store' = InsertRow(store, row)
         /\ written' = [written EXCEPT ![row.id] = IF @ = NoRow THEN row ELSE @]
    /\ stdout' = [stdout EXCEPT ![s] =
           Report(direct[s], @, "Successfully added event", event[s].id)]
    /\ EndLine(s, "read")
    /\ UNCHANGED <<direct, lines, nread, nparsed, stderr>>

\* main.rs:430-431, an Err from the INSERT: where the process goes.
OnInsertError_Abort == "aborted"

OnInsertError == "read"

\* main.rs:418-431: the INSERT fails, at the primary key when the id is
\* stored, or for another reason; the message carries the store's error.
InsertErr(s) ==
    /\ UNCHANGED search
    /\ pc[s] = "insert"
    /\ \E e \in (IF UniqueViolation(store, Row(event[s], embedding[s]))
                    THEN {"unique_violation"} ELSE {}) \cup {"io"} :
         stderr' = [stderr EXCEPT ![s] =
             Append(@, [msg |-> "Failed to insert event", id |-> event[s].id,
                        err |-> e])]
    /\ EndLine(s, OnInsertError)
    /\ UNCHANGED <<store, written, direct, lines, nread, nparsed, stdout>>

(* ------------------------- the search request ------------------------- *)

\* Option<T>: None is the empty sequence, Some(v) the sequence of v alone.
None == <<>>

Some(v) == <<v>>

\* search.rs:55-56, the defaults of limit and offset.
DefaultLimit == 10

DefaultOffset == 0

UnwrapOr(opt, default) == IF opt = None THEN default ELSE opt[1]

\* struct TagFilters; search_events reads `exact` alone.
TagFilters(exact) == [exact |-> exact, any |-> None, values |-> None]

\* struct SearchFilters
SearchFilters(pubkey, kind, tags) == [pubkey |-> pubkey, kind |-> kind, tags |-> tags]

\* struct SearchQuery
SearchQuery(query, lim, off, filters) ==
    [query |-> query, limit |-> lim, offset |-> off, filters |-> filters]

NoQuery == SearchQuery("", None, None, None)

FilterValues ==
    {None} \cup
    { Some(SearchFilters(p, k, g)) :
        p \in {None, Some("p1"), Some("p2")},
        k \in {None, Some(1), Some(7)},
        g \in {None, Some(TagFilters(None)), Some(TagFilters(Some(NoTags))),
               Some(TagFilters(Some({"t"})))} }

\* The requests of the query-building runs: every combination of filters,
\* two query texts, limits and offsets absent and present.
BuildQueries ==
    { SearchQuery(q, l, o, f) :
        q \in {"hello", "world"}, l \in {None, Some(1), Some(2)},
        o \in {None, Some(1)}, f \in FilterValues }

(* --------------------------- sqlx::QueryBuilder ------------------------ *)

\* The text of a statement is the sequence of its lexemes; a pushed string is
\* the lexemes it holds. Bound values are kept beside the text, each with
\* the type sqlx encodes it as.
Bind(ty, v) == [ty |-> ty, v |-> v]

\* The placeholder sqlx writes for the n-th bound value.
Placeholder(n) == <<"$1", "$2", "$3", "$4", "$5", "$6", "$7", "$8">>[n]

QueryBuilderNew(init) == [sql |-> init, binds |-> <<>>]

Push(q, lexemes) == [q EXCEPT !.sql = @ \o lexemes]

PushBind(q, value) ==
    [sql |-> Append(q.sql, Placeholder(Len(q.binds) + 1)),
     binds |-> Append(q.binds, value)]

(* ------------------- search_events: the two statements ----------------- *)

\* search.rs:74-78 with the pubkey written into the text instead of bound.
RankedPubkey_Inline(q, filters) ==
    IF filters.pubkey # None
      THEN Push(q, <<"WHERE", "pubkey", "=", filters.pubkey[1]>>)
      ELSE q

\* search.rs:74-78, the pubkey predicate of the ranked statement.
RankedPubkey(q, filters) ==
    IF filters.pubkey # None
      THEN PushBind(Push(q, <<"WHERE", "pubkey", "=">>),
                    Bind("text", filters.pubkey[1]))
      ELSE q

\* search.rs:80-89 with first_condition read as true whatever came before.
RankedKind_AlwaysWhere(q, filters, first_condition) ==
    IF filters.kind # None
      THEN PushBind(Push(Push(q, <<"WHERE">>), <<"kind", "=">>),
                    Bind("int4", filters.kind[1]))
      ELSE q

\* search.rs:80-89, the kind predicate of the ranked statement.
RankedKind(q, filters, first_condition) ==
    IF filters.kind # None
      THEN PushBind(Push(Push(q, IF first_condition THEN <<"WHERE">> ELSE <<"AND">>),
                         <<"kind", "=">>),
                    Bind("int4", filters.kind[1]))
      ELSE q

\* search.rs:91-101 left out: the tags filter is not applied.
RankedTags_Skip(q, filters, first_condition) == q

\* search.rs:91-101, the tags predicate of the ranked statement.
RankedTags(q, filters, first_condition) ==
    IF filters.tags # None /\ filters.tags[1].exact # None
      THEN PushBind(Push(Push(q, IF first_condition THEN <<"WHERE">> ELSE <<"AND">>),
                         <<"tags", "@>">>),
                    Bind("jsonb", filters.tags[1].exact[1]))
      ELSE q

\* search.rs:70-102 with the kind predicate pushed before the pubkey one.
RankedFilters_KindFirst(q, sq) ==
    IF sq.filters = None THEN q
    ELSE LET filters == sq.filters[1]
             q1 == RankedKind(q, filters, TRUE)
             q2 == IF filters.pubkey # None
                     THEN PushBind(Push(Push(q1, IF filters.kind = None
                                                   THEN <<"WHERE">> ELSE <<"AND">>),
                                        <<"pubkey", "=">>),
                                   Bind("text", filters.pubkey[1]))
                     ELSE q1
         IN  RankedTags(q2, filters, filters.pubkey = None /\ filters.kind = None)

\* search.rs:70-102, the WHERE clause of the ranked statement: first_condition
\* is true until a predicate has been pushed.
RankedFilters(q, sq) ==
    IF sq.filters = None THEN q
    ELSE LET filters == sq.filters[1]
             q1 == RankedPubkey(q, filters)
             first1 == (filters.pubkey = None)
             q2 == RankedKind(q1, filters, first1)
             first2 == IF filters.kind # None THEN FALSE ELSE first1
         IN  RankedTags(q2, filters, first2)

\* search.rs:62-110 with another vector bound to ORDER BY than to the
\* similarity column.
BuildRanked_OrderByOther(sq, emb, lim, off) ==
    LET q0 == QueryBuilderNew(<<"SELECT", "id", ",", "pubkey", ",", "created_at",
                                ",", "kind", ",", "content", ",", "tags", ",",
                                "1", "-", "(", "embedding", "<=>">>)
        q1 == Push(PushBind(q0, Bind("vector", emb)),
                   <<")", "as", "similarity", "FROM", "nostr_search.events">>)
        q2 == RankedFilters(q1, sq)
        q3 == PushBind(Push(q2, <<"ORDER", "BY", "embedding", "<=>">>),
                       Bind("vector", MaxVec - emb))
        q4 == PushBind(Push(q3, <<"LIMIT">>), Bind("int8", lim))
    IN  PushBind(Push(q4, <<"OFFSET">>), Bind("int8", off))

\* search.rs:62-110 with limit bound to OFFSET and offset to LIMIT.
BuildRanked_SwapLimitOffset(sq, emb, lim, off) ==
    LET q0 == QueryBuilderNew(<<"SELECT", "id", ",", "pubkey", ",", "created_at",
                                ",", "kind", ",", "content", ",", "tags", ",",
                                "1", "-", "(", "embedding", "<=>">>)
        q1 == Push(PushBind(q0, Bind("vector", emb)),
                   <<")", "as", "similarity", "FROM", "nostr_search.events">>)
        q2 == RankedFilters(q1, sq)
        q3 == PushBind(Push(q2, <<"ORDER", "BY", "embedding", "<=>">>),
                       Bind("vector", emb))
        q4 == PushBind(Push(q3, <<"LIMIT">>), Bind("int8", off))
    IN  PushBind(Push(q4, <<"OFFSET">>), Bind("int8", lim))

\* search.rs:62-110, the ranked statement.
BuildRanked(sq, emb, lim, off) ==
    LET q0 == QueryBuilderNew(<<"SELECT", "id", ",", "pubkey", ",", "created_at",
                                ",", "kind", ",", "content", ",", "tags", ",",
                                "1", "-", "(", "embedding", "<=>">>)
        q1 == Push(PushBind(q0, Bind("vector", emb)),
                   <<")", "as", "similarity", "FROM", "nostr_search.events">>)
        q2 == RankedFilters(q1, sq)
        q3 == PushBind(Push(q2, <<"ORDER", "BY", "embedding", "<=>">>),
                       Bind("vector", emb))
        q4 == PushBind(Push(q3, <<"LIMIT">>), Bind("int8", lim))
    IN  PushBind(Push(q4, <<"OFFSET">>), Bind("int8", off))

\* search.rs:120-151 without the kind predicate.
CountFilters_NoKind(q, sq) ==
    IF sq.filters = None THEN q
    ELSE LET filters == sq.filters[1]
             q1 == IF filters.pubkey # None
                     THEN PushBind(Push(q, <<"WHERE", "pubkey", "=">>),
                                   Bind("text", filters.pubkey[1]))
                     ELSE q
             first1 == (filters.pubkey = None)
         IN  IF filters.tags # None /\ filters.tags[1].exact # None
               THEN PushBind(Push(Push(q1, IF first1 THEN <<"WHERE">> ELSE <<"AND">>),
                                  <<"tags", "@>">>),
                             Bind("jsonb", filters.tags[1].exact[1]))
               ELSE q1

\* search.rs:120-151, the WHERE clause of the count statement.
CountFilters(q, sq) ==
    IF sq.filters = None THEN q
    ELSE LET filters == sq.filters[1]
             q1 == IF filters.pubkey # None
                     THEN PushBind(Push(q, <<"WHERE", "pubkey", "=">>),
                                   Bind("text", filters.pubkey[1]))
                     ELSE q
             first1 == (filters.pubkey = None)
             q2 == IF filters.kind # None
                     THEN PushBind(Push(Push(q1, IF first1 THEN <<"WHERE">>
                                                           ELSE <<"AND">>),
                                        <<"kind", "=">>),
                                   Bind("int4", filters.kind[1]))
                     ELSE q1
             first2 == IF filters.kind # None THEN FALSE ELSE first1
         IN  IF filters.tags # None /\ filters.tags[1].exact # None
               THEN PushBind(Push(Push(q2, IF first2 THEN <<"WHERE">> ELSE <<"AND">>),
                                  <<"tags", "@>">>),
                             Bind("jsonb", filters.tags[1].exact[1]))
               ELSE q2

\* search.rs:117-151, the count statement.
BuildCount(sq) ==
    CountFilters(QueryBuilderNew(<<"SELECT", "COUNT(*)", "FROM", "nostr_search.events">>),
                 sq)

(* ------------------- the store's answer to a statement ----------------- *)

\* The distance operator of the store, on the points of a line.
Distance(a, b) == IF a >= b THEN a - b ELSE b - a

\* The number of the bound value a lexeme stands for, 0 when it is none.
PlaceholderNo(lexeme) ==
    IF \E n \in 1..8 : Placeholder(n) = lexeme
      THEN CHOOSE n \in 1..8 : Placeholder(n) = lexeme
      ELSE 0

\* The position of the first lexeme equal to x in sql, 0 when there is none.
IndexOf(sql, x) ==
    IF \E i \in 1..Len(sql) : sql[i] = x
      THEN CHOOSE i \in 1..Len(sql) : sql[i] = x /\ \A j \in 1..(i - 1) : sql[j] # x
      ELSE 0

\* The lexemes between the table name and ORDER BY (or the end).
WhereClause(sql) ==
    LET from == IndexOf(sql, "nostr_search.events")
        order == IndexOf(sql, "ORDER")
    IN  SubSeq(sql, from + 1, IF order = 0 THEN Len(sql) ELSE order - 1)

\* The lexemes from ORDER BY on.
OrderClause(sql) ==
    LET order == IndexOf(sql, "ORDER")
    IN  IF order = 0 THEN <<>> ELSE SubSeq(sql, order, Len(sql))

ColumnType(col) ==
    CASE col = "pubkey" -> "text"
      [] col = "kind" -> "int4"
      [] col = "tags" -> "jsonb"
      [] OTHER -> "none"

HasBind(q, lexeme, ty) ==
    /\ PlaceholderNo(lexeme) \in 1..Len(q.binds)
    /\ q.binds[PlaceholderNo(lexeme)].ty = ty

BindOf(q, lexeme) == q.binds[PlaceholderNo(lexeme)].v

\* The store parses a WHERE clause as WHERE p AND p ..., each p a column, an
\* operator and a bound value of the column's type; anything else is a
\* syntax error.
WhereOk(q) ==
    LET w == WhereClause(q.sql) IN
    /\ Len(w) % 4 = 0
    /\ \A k \in 1..(Len(w) \div 4) :
         /\ w[4 * k - 3] = (IF k = 1 THEN "WHERE" ELSE "AND")
         /\ w[4 * k - 2] \in {"pubkey", "kind", "tags"}
         /\ w[4 * k - 1] = (IF w[4 * k - 2] = "tags" THEN "@>" ELSE "=")
         /\ HasBind(q, w[4 * k], ColumnType(w[4 * k - 2]))

\* pubkey = $n, kind = $n, tags @> $n on a row; a jsonb array contains
\* another when it holds each of its elements.
RowMatches(row, q) ==
    LET w == WhereClause(q.sql) IN
    \A k \in 1..(Len(w) \div 4) :
        LET col == w[4 * k - 2]
            arg == BindOf(q, w[4 * k])
        IN  CASE col = "pubkey" -> row.pubkey = arg
              [] col = "kind" -> row.kind = arg
              [] col = "tags" -> arg \subseteq row.tags

Matching(s, q) == {i \in 1..Len(s) : RowMatches(s[i], q)}

RankedHead ==
    <<"SELECT", "id", ",", "pubkey", ",", "created_at", ",", "kind", ",",
      "content", ",", "tags", ",", "1", "-", "(", "embedding", "<=>", "$1", ")",
      "as", "similarity", "FROM", "nostr_search.events">>

\* The store accepts the ranked statement: its text parses, and LIMIT and
\* OFFSET are not negative.
RankedOk(q) ==
    LET o == OrderClause(q.sql) IN
    /\ Len(q.sql) >= Len(RankedHead)
    /\ SubSeq(q.sql, 1, Len(RankedHead)) = RankedHead
    /\ HasBind(q, "$1", "vector")
    /\ WhereOk(q)
    /\ Len(o) = 9
    /\ <<o[1], o[2], o[3], o[4], o[6], o[8]>> =
           <<"ORDER", "BY", "embedding", "<=>", "LIMIT", "OFFSET">>
    /\ HasBind(q, o[5], "vector")
    /\ HasBind(q, o[7], "int8") /\ BindOf(q, o[7]) >= 0
    /\ HasBind(q, o[9], "int8") /\ BindOf(q, o[9]) >= 0

\* struct EventWithSimilarity: a row of the ranked statement's answer.
EventWithSimilarity(row, similarity) ==
    [id |-> row.id, pubkey |-> row.pubkey, created_at |-> row.created_at,
     kind |-> row.kind, content |-> row.content, tags |-> row.tags,
     similarity |-> similarity]

\* The orders ORDER BY embedding <=> v may give the rows idx of s: every
\* arrangement by ascending distance, rows at one distance in any order.
Orderings(s, idx, v) ==
    { p \in [1..Cardinality(idx) -> idx] :
        /\ \A a, b \in 1..Cardinality(idx) : a # b => p[a] # p[b]
        /\ \A a \in 1..(Cardinality(idx) - 1) :
             Distance(s[p[a]].embedding, v) <= Distance(s[p[a + 1]].embedding, v) }

Min(a, b) == IF a <= b THEN a ELSE b

\* The answers the store may give to the ranked statement q on the table s.
ExecRanked(s, q) ==
    LET o == OrderClause(q.sql)
        lim == BindOf(q, o[7])
        off == BindOf(q, o[9])
        idx == Matching(s, q)
        n == Cardinality(idx)
    IN  { [k \in 1..(Min(n, off + lim) - Min(n, off)) |->
              EventWithSimilarity(s[p[Min(n, off) + k]],
                  1 - Distance(s[p[Min(n, off) + k]].embedding, BindOf(q, "$1"))) ] :
          p \in Orderings(s, idx, BindOf(q, o[5])) }

CountHead == <<"SELECT", "COUNT(*)", "FROM", "nostr_search.events">>

\* The store accepts the count statement.
CountOk(q) ==
    /\ Len(q.sql) >= Len(CountHead)
    /\ SubSeq(q.sql, 1, Len(CountHead)) = CountHead
    /\ OrderClause(q.sql) = <<>>
    /\ WhereOk(q)

\* The store's answer to the count statement q on the table s.
ExecCount(s, q) == Cardinality(Matching(s, q))

(* ------------------- cloudflare::generate_embedding -------------------- *)

\* What comes back from the provider: the request fails on the way
\* (sent = FALSE), or a reply arrives with a status and a body, which
\* deserializes as EmbeddingResponse or does not; result.response is the
\* array of vectors of a body that does. The provider's error replies
\* (status 500) carry a body that is no EmbeddingResponse.
EmbeddingResponse(parses, vectors) == [parses |-> parses, response |-> vectors]

NoReply == [sent |-> FALSE, status |-> 0, body |-> EmbeddingResponse(FALSE, <<>>)]

ProviderReplies ==
    {NoReply, [sent |-> TRUE, status |-> 500, body |-> EmbeddingResponse(FALSE, <<>>)]}
      \cup
    [sent : {TRUE}, status : {200},
     body : {EmbeddingResponse(FALSE, <<>>), EmbeddingResponse(TRUE, <<>>)}
              \cup {EmbeddingResponse(TRUE, <<v>>) : v \in Vectors}]

\* How a call of generate_embedding ends: it returns Ok(vector), it returns
\* Err, or the thread panics.
Returned(v) == [kind |-> "ok", v |-> v]

Failed == [kind |-> "err", v |-> NoVec]

Panicked == [kind |-> "panic", v |-> NoVec]

\* embedding.rs:33-52 with a default vector in place of every failure.
GenerateEmbedding_Default(r) ==
    IF r.sent /\ r.body.parses /\ r.body.response # <<>>
      THEN Returned(r.body.response[1])
      ELSE Returned(0)

\* embedding.rs:33-52: `?` on send() and on json() return the error; the
\* status is not looked at; response.result.response[0] is the vector, and
\* indexing an empty Vec panics.
GenerateEmbedding(r) ==
    IF ~r.sent THEN Failed
    ELSE IF ~r.body.parses THEN Failed
    ELSE IF Len(r.body.response) = 0 THEN Panicked
    ELSE Returned(r.body.response[1])

(* ----------------------------- search_events -------------------------- *)

Searches == {1, 2}

\* search.rs:159-164 with the number of returned rows as the total.
SearchResult_TotalIsLen(rs, total, lim, off) ==
    [results |-> rs, total |-> Len(rs), limit |-> lim, offset |-> off]

\* struct SearchResult, as search.rs:159-164 fills it.
SearchResult(rs, total, lim, off) ==
    [results |-> rs, total |-> total, limit |-> lim, offset |-> off]

NoResult == SearchResult(<<>>, 0, 0, 0)

\* Result<SearchResult>
Ok(value) == [ok |-> TRUE, value |-> value, err |-> ""]

\* An error swallowed: an empty result returned in its place.
Err_Swallowed(e) == Ok(NoResult)

Err(e) == [ok |-> FALSE, value |-> NoResult, err |-> e]

NoResponse == Err("pending")

NoBuilder == QueryBuilderNew(<<>>)

\* A statement the store has answered, with a result or with an error.
Op(stmt, ok) == [stmt |-> stmt, ok |-> ok]

\* A statement that clears the table.
StoreAfter_Truncate(s, q) == <<>>

\* search.rs:115,153-157: the table after the store has run the statement
\* q; both statements are SELECTs, which leave it as it is.
StoreAfter(s, q) == s

\* search.rs:159-165: the function returns and its locals are dropped.
Return(h, r) ==
    /\ response' = [response EXCEPT ![h] = r]
    /\ spc' = [spc EXCEPT ![h] = "done"]
    /\ embedding_vec' = [embedding_vec EXCEPT ![h] = NoVec]
    /\ qb' = [qb EXCEPT ![h] = NoBuilder]
    /\ count_qb' = [count_qb EXCEPT ![h] = NoBuilder]
    /\ results' = [results EXCEPT ![h] = <<>>]

\* search.rs:54-58: a request arrives, limit and offset are resolved and
\* generate_embedding is called on the query text.
SearchStart(h, queries) ==
    /\ spc[h] = "idle"
    /\ \E sq \in queries :
         /\ search_query' = [search_query EXCEPT ![h] = sq]
         /\ limit' = [limit EXCEPT ![h] = UnwrapOr(sq.limit, DefaultLimit)]
         /\ offset' = [offset EXCEPT ![h] = UnwrapOr(sq.offset, DefaultOffset)]
    /\ spc' = [spc EXCEPT ![h] = "embedding"]
    /\ UNCHANGED <<store, written, ingest, embedding_vec, qb, results, count_qb,
                   response, ranked_at, counted_at, provider, ops>>

\* search.rs:58-115: generate_embedding returns a vector; the ranked
\* statement is built and sent to the store.
SearchEmbedOk(h) ==
    /\ spc[h] = "embedding"
    /\ \E r \in ProviderReplies :
         /\ GenerateEmbedding(r).kind = "ok"
         /\ provider' = [provider EXCEPT ![h] = r]
         /\ embedding_vec' = [embedding_vec EXCEPT ![h] = GenerateEmbedding(r).v]
         /\ qb' = [qb EXCEPT ![h] = BuildRanked(search_query[h], GenerateEmbedding(r).v,
                                                limit[h], offset[h])]
    /\ spc' = [spc EXCEPT ![h] = "ranked"]
    /\ UNCHANGED <<store, written, ingest, search_query, limit, offset, results,
                   count_qb, response, ranked_at, counted_at, ops>>

\* search.rs:58: generate_embedding returns an error, which `?` returns.
SearchEmbedErr(h) ==
    /\ spc[h] = "embedding"
    /\ \E r \in ProviderReplies :
         /\ GenerateEmbedding(r).kind = "err"
         /\ provider' = [provider EXCEPT ![h] = r]
    /\ Return(h, Err("embedding"))
    /\ UNCHANGED <<store, written, ingest, search_query, limit, offset,
                   ranked_at, counted_at, ops>>

\* search.rs:58, embedding.rs:52: generate_embedding panics, and the handler
\* with it: nothing is returned.
SearchEmbedPanic(h) ==
    /\ spc[h] = "embedding"
    /\ \E r \in ProviderReplies :
         /\ GenerateEmbedding(r).kind = "panic"
         /\ provider' = [provider EXCEPT ![h] = r]
    /\ spc' = [spc EXCEPT ![h] = "panicked"]
    /\ UNCHANGED <<store, written, ingest, search_query, limit, offset,
                   embedding_vec, qb, results, count_qb, response, ranked_at,
                   counted_at, ops>>

\* search.rs:115-157: the store answers the ranked statement; the count
\* statement is built and sent.
SearchRankedOk(h) ==
    /\ spc[h] = "ranked"
    /\ RankedOk(qb[h])
    /\ \E rs \in ExecRanked(store, qb[h]) : results' = [results EXCEPT ![h] = rs]
    /\ store' = StoreAfter(store, qb[h])
    /\ count_qb' = [count_qb EXCEPT ![h] = BuildCount(search_query[h])]
    /\ ranked_at' = [ranked_at EXCEPT ![h] = Len(store)]
    /\ ops' = [ops EXCEPT ![h] = Append(@, Op("ranked", TRUE))]
    /\ spc' = [spc EXCEPT ![h] = "count"]
    /\ UNCHANGED <<written, ingest, search_query, limit, offset,
                   embedding_vec, qb, response, counted_at, provider>>

\* search.rs:115: the ranked statement fails, and `?` returns the error.
SearchRankedErr(h) ==
    /\ spc[h] = "ranked"
    /\ ops' = [ops EXCEPT ![h] = Append(@, Op("ranked", FALSE))]
    /\ Return(h, Err("store"))
    /\ UNCHANGED <<store, written, ingest, search_query, limit, offset,
                   ranked_at, counted_at, provider>>

\* search.rs:153-165: the store answers the count statement and the
\* SearchResult is returned.
SearchCountOk(h) ==
    /\ spc[h] = "count"
    /\ CountOk(count_qb[h])
    /\ Return(h, Ok(SearchResult(results[h], ExecCount(store, count_qb[h]),
                                 limit[h], offset[h])))
    /\ store' = StoreAfter(store, count_qb[h])
    /\ counted_at' = [counted_at EXCEPT ![h] = Len(store)]
    /\ ops' = [ops EXCEPT ![h] = Append(@, Op("count", TRUE))]
    /\ UNCHANGED <<written, ingest, search_query, limit, offset, ranked_at,
                   provider>>

\* search.rs:153-157: the count statement fails, and `?` returns the error.
SearchCountErr(h) ==
    /\ spc[h] = "count"
    /\ ops' = [ops EXCEPT ![h] = Append(@, Op("count", FALSE))]
    /\ Return(h, Err("store"))
    /\ UNCHANGED <<store, written, ingest, search_query, limit, offset,
                   ranked_at, counted_at, provider>>

(* --------------------------- specifications ---------------------------- *)

\* The handlers in `serving` wait for a request; the others are not running.
InitSearchIdle(serving) ==
    /\ spc = [h \in Searches |-> IF h \in serving THEN "idle" ELSE "off"]
    /\ search_query = [h \in Searches |-> NoQuery]
    /\ limit = [h \in Searches |-> 0]
    /\ offset = [h \in Searches |-> 0]
    /\ embedding_vec = [h \in Searches |-> NoVec]
    /\ qb = [h \in Searches |-> NoBuilder]
    /\ results = [h \in Searches |-> <<>>]
    /\ count_qb = [h \in Searches |-> NoBuilder]
    /\ response = [h \in Searches |-> NoResponse]
    /\ ranked_at = [h \in Searches |-> 0]
    /\ counted_at = [h \in Searches |-> 0]
    /\ provider = [h \in Searches |-> NoReply]
    /\ ops = [h \in Searches |-> <<>>]

InitIngest(modes, inputs) ==
    /\ direct \in modes
    /\ lines = inputs
    /\ pc = [s \in Streams |-> "read"]
    /\ nread = [s \in Streams |-> 0]
    /\ nparsed = [s \in Streams |-> 0]
    /\ event = [s \in Streams |-> NoEvent]
    /\ embedding = [s \in Streams |-> NoVec]
    /\ stdout = [s \in Streams |-> <<>>]
    /\ stderr = [s \in Streams |-> <<>>]
    /\ dup = [s \in Streams |-> FALSE]

Ingest ==
    \E s \in Streams :
        \/ ReadLine(s)
        \/ EndOfInput(s)
        \/ ExistsCheckErr(s)
        \/ ExistsCheck(s)
        \/ EmbedOk(s)
        \/ EmbedErr(s)
        \/ InsertOk(s)
        \/ InsertErr(s)

\* Ingestion: two `add` processes on an empty table, the first reading
\* MaxLines lines, the second racing it with one line.
Init ==
    /\ store = <<>>
    /\ written = [id \in Ids |-> NoRow]
    /\ InitIngest([Streams -> BOOLEAN], [s \in Streams |-> IF s = 1 THEN MaxLines ELSE 1])
    /\ InitSearchIdle({})

Next == Ingest

Spec == Init /\ [][Next]_vars

\* The tables earlier ingestion runs leave behind: text notes with their
\* embeddings, one row for each id.
TextNotes == {e \in Events : e.kind = 1}

InitStores ==
    {<<>>}
      \cup { <<Row(e, v)>> : e \in TextNotes, v \in Vectors }
      \cup { <<Row(e, v), Row(f, w)>> :
               e \in {x \in TextNotes : x.id = "e1"}, v \in Vectors,
               f \in {x \in TextNotes : x.id = "e2"}, w \in Vectors }

InitStored(stores) ==
    /\ store \in stores
    /\ written = [id \in Ids |->
                    IF Exists(store, id)
                      THEN store[CHOOSE i \in 1..Len(store) : store[i].id = id]
                      ELSE NoRow]

\* The requests of the runs against a table that is being written.
SearchQueries ==
    { SearchQuery("hello", l, o, f) :
        l \in {None, Some(1)}, o \in {None, Some(1)},
        f \in { None,
                Some(SearchFilters(Some("p1"), None, None)),
                Some(SearchFilters(None, Some(1), None)),
                Some(SearchFilters(None, Some(7), None)),
                Some(SearchFilters(None, None, Some(TagFilters(Some({"t"}))))),
                Some(SearchFilters(Some("p2"), Some(1), Some(TagFilters(Some({"t"}))))) } }

SearchSteps(h) ==
    \/ SearchEmbedOk(h)
    \/ SearchEmbedErr(h)
    \/ SearchEmbedPanic(h)
    \/ SearchRankedOk(h)
    \/ SearchRankedErr(h)
    \/ SearchCountOk(h)
    \/ SearchCountErr(h)

\* Search: a request served while one `add` process in plugin mode ingests
\* a line into a table that already holds rows.
InitSearch ==
    /\ InitStored(InitStores)
    /\ InitIngest({[s \in Streams |-> FALSE]}, [s \in Streams |-> IF s = 1 THEN 0 ELSE 1])
    /\ InitSearchIdle({1})

NextSearch ==
    \/ Ingest
    \/ \E h \in Searches : SearchStart(h, SearchQueries) \/ SearchSteps(h)

SpecSearch == InitSearch /\ [][NextSearch]_vars

\* Query building: a request, over every combination of filters, served
\* from a table no process writes, empty or of two rows.
BuildStores ==
    {s \in InitStores : Len(s) # 1 /\ \A i \in 1..Len(s) : s[i].embedding = i - 1}

InitBuild ==
    /\ InitStored(BuildStores)
    /\ InitIngest({[s \in Streams |-> FALSE]}, [s \in Streams |-> 0])
    /\ InitSearchIdle({1})

NextBuild ==
    \E h \in Searches : SearchStart(h, BuildQueries) \/ SearchSteps(h)

SpecBuild == InitBuild /\ [][NextBuild]_vars

\* The requests of the runs with two handlers.
ReaderQueries ==
    { SearchQuery("hello", None, None, None),
      SearchQuery("hello", Some(1), Some(1), Some(SearchFilters(Some("p2"), None, None))) }

\* Concurrent searches: two handlers, each serving a request, while one
\* `add` process in plugin mode ingests a line.
InitReaders ==
    /\ InitStored(BuildStores)
    /\ InitIngest({[s \in Streams |-> FALSE]}, [s \in Streams |-> IF s = 1 THEN 0 ELSE 1])
    /\ InitSearchIdle(Searches)

NextReaders ==
    \/ Ingest
    \/ \E h \in Searches : SearchStart(h, ReaderQueries) \/ SearchSteps(h)

SpecReaders == InitReaders /\ [][NextReaders]_vars

(* ------------------------ properties: ingestion ------------------------ *)

Last(seq) == seq[Len(seq)]

\* C1: a line whose id was stored when the line was read leads to no
\* embedding call and no INSERT, and every id that has been inserted has
\* exactly one row, the row its first INSERT wrote.
C1_SecondIngestionIsNoOp ==
    /\ \A s \in Streams : dup[s] => pc[s] \notin {"embed", "insert"}
    /\ \A id \in Ids :
         written[id] # NoRow =>
             /\ Cardinality(RowsOf(store, id)) = 1
             /\ \A i \in RowsOf(store, id) : store[i] = written[id]

\* Process 1 in direct mode has added e1 from its first line and skipped its
\* second line, another e1, while the table still holds the first row.
C1_Witness ==
    /\ direct[1]
    /\ stdout[1] = <<Msg("Successfully added event", "e1"),
                     Msg("already exists, skipping", "e1")>>
    /\ Len(store) = 1 /\ store[1] = written["e1"]

\* C2: in plugin mode the standard output holds one accept response for each
\* line that parsed and nothing for the others, and while a parsed line's
\* store operations are pending or running the last response written is the
\* accept response of that line's event.
C2_AckBeforeStore ==
    \A s \in Streams :
        ~direct[s] =>
            /\ Len(stdout[s]) = nparsed[s]
            /\ pc[s] \in {"exists", "embed", "insert"} =>
                   /\ stdout[s] # <<>>
                   /\ Last(stdout[s]) = Ack(event[s].id)

\* A process in plugin mode has skipped a line that did not parse, has
\* accepted the next one, and its existence query has not been answered.
C2_Witness ==
    \E s \in Streams :
        /\ ~direct[s]
        /\ nread[s] = 2 /\ nparsed[s] = 1
        /\ pc[s] = "exists"
        /\ stdout[s] = <<Ack("e2")>> /\ event[s].id = "e2"
        /\ Len(stderr[s]) = 1

\* C3: no process with lines left on its input has stopped: after a failed
\* existence query the loop goes on to the next line.
C3_ExistsErrorContinues ==
    \A s \in Streams : nread[s] < lines[s] => pc[s] # "aborted"

\* The INSERT of process s returns while the id of its row is stored.
LosesRace(s) ==
    /\ pc[s] = "insert"
    /\ Exists(store, event[s].id)
    /\ pc'[s] # "insert"

\* C4: when an INSERT returns for an id that another process stored after
\* this one's existence check, the table is left as it was, with one row
\* for the id, nothing is reported on standard output, the failure is the
\* primary key's, and the process is back at reading its next line.
C4_DuplicateInsertIsNoOp ==
    [][\A s \in Streams :
          LosesRace(s) =>
              /\ store' = store
              /\ Cardinality(RowsOf(store', event[s].id)) = 1
              /\ stdout'[s] = stdout[s]
              /\ pc'[s] = "read"
              /\ nread'[s] = nread[s]
              /\ stderr'[s] # stderr[s]]_vars

\* Process 1 lost the race for e1 to process 2, which added it, and has
\* read its second line.
C4_Witness ==
    /\ stderr[1] = <<[msg |-> "Failed to insert event", id |-> "e1",
                      err |-> "unique_violation"]>>
    /\ direct[2] /\ stdout[2] = <<Msg("Successfully added event", "e1")>>
    /\ Cardinality(RowsOf(store, "e1")) = 1
    /\ nread[1] = 2 /\ pc[1] = "exists"

\* C12: an embedding call or an INSERT is pending or running only for an
\* event of kind 1, and every row of the table, and so every row a search
\* can return, is of kind 1: a line of another kind leads to neither.
C12_OnlyTextNotesStored ==
    /\ \A s \in Streams : pc[s] \in {"embed", "insert"} => event[s].kind = 1
    /\ \A i \in 1..Len(store) : store[i].kind = 1
    /\ \A id \in Ids : written[id] # NoRow => written[id].kind = 1

\* A process in direct mode has read the line of e3, an event of kind 7 that
\* is not stored, and is back at reading with the table empty.
C12_Witness ==
    \E s \in Streams :
        /\ direct[s]
        /\ stdout[s] = <<Msg("already exists, skipping", "e3")>>
        /\ pc[s] = "read"
        /\ store = <<>>

\* The INSERT of process s returns an error: the table is as it was.
InsertFails(s) == pc[s] = "insert" /\ pc'[s] # "insert" /\ store' = store

\* C13: when the INSERT of a line fails, for whatever reason, the failure is
\* logged on standard error with the event's id, nothing is written to
\* standard output, and the process is at the head of its loop with no line
\* consumed, so that it reads its next line.
C13_InsertFailureContinues ==
    [][\A s \in Streams :
          InsertFails(s) =>
              /\ pc'[s] = "read"
              /\ nread'[s] = nread[s]
              /\ stdout'[s] = stdout[s]
              /\ Len(stderr'[s]) = Len(stderr[s]) + 1
              /\ Last(stderr'[s]).msg = "Failed to insert event"
              /\ Last(stderr'[s]).id = event[s].id]_vars

\* Process 1 in direct mode failed to insert e1 for a reason other than the
\* primary key, and has added e2 from its next line.
C13_Witness ==
    /\ direct[1]
    /\ stderr[1] = <<[msg |-> "Failed to insert event", id |-> "e1", err |-> "io"]>>
    /\ stdout[1] = <<Msg("Successfully added event", "e2")>>
    /\ ~Exists(store, "e1") /\ Exists(store, "e2")

\* The embedding call of process s returns an error.
EmbedFails(s) == pc[s] = "embed" /\ stderr'[s] # stderr[s]

\* C14: when the embedding call of a line fails, the table is left as it
\* was, the line is over (no INSERT and no second embedding call can follow
\* for it: both need a line to be read first), and the process is at the
\* head of its loop.
C14_EmbedFailureSkipsLine ==
    [][\A s \in Streams :
          EmbedFails(s) =>
              /\ store' = store
              /\ pc'[s] = "read"
              /\ event'[s] = NoEvent
              /\ nread'[s] = nread[s]
              /\ stdout'[s] = stdout[s]
              /\ stderr'[s] = Append(stderr[s],
                     Msg("Failed to generate embedding", event[s].id))]_vars

\* Process 1 failed to embed e1, which is not stored, and its next line,
\* e2, has been embedded and is being inserted.
C14_Witness ==
    /\ stderr[1] = <<Msg("Failed to generate embedding", "e1")>>
    /\ ~Exists(store, "e1")
    /\ nread[1] = 2 /\ pc[1] = "insert" /\ event[1].id = "e2"

\* Process s has failed to embed an event of this id before.
FailedBefore(s, id) ==
    \E i \in 1..Len(stderr[s]) : stderr[s][i] = Msg("Failed to generate embedding", id)

\* The table s holds a row of this id with a vector.
StoredWithVector(s, id) ==
    \E i \in 1..Len(s) : s[i].id = id /\ s[i].embedding \in Vectors

\* C15: when a process ends, without an error, a line carrying a text note
\* whose embedding it failed to get before, the event is stored with a
\* vector: the replay was either embedded and inserted, or skipped because
\* a row with a vector was there; the failed attempt left nothing that makes
\* the replay skip an event that is not stored.
C15_ReplayStoresEvent ==
    [][\A s \in Streams :
          ( /\ pc[s] \in {"exists", "insert"}
            /\ event[s].kind = 1
            /\ FailedBefore(s, event[s].id)
            /\ pc'[s] = "read"
            /\ stderr'[s] = stderr[s] )
          => StoredWithVector(store', event[s].id)]_vars

\* Process 1 in direct mode failed to embed e1 from its first line and has
\* added it from its second.
C15_Witness ==
    /\ direct[1]
    /\ stderr[1] = <<Msg("Failed to generate embedding", "e1")>>
    /\ stdout[1] = <<Msg("Successfully added event", "e1")>>
    /\ StoredWithVector(store, "e1")

\* C16: a process reads a line only when it is at the head of its loop with
\* nothing of the last line left (no event, no vector, so no call in
\* flight); in plugin mode each line that parses appends its own accept
\* response, so responses are in line order; and a row that a process
\* inserts is the row of the line it read last, acknowledged before.
C16_SequentialPerStream ==
    [][\A s \in Streams :
          /\ nread'[s] # nread[s] =>
                 /\ pc[s] = "read"
                 /\ event[s] = NoEvent /\ embedding[s] = NoVec
                 /\ nread'[s] = nread[s] + 1
          /\ (nparsed'[s] # nparsed[s] /\ ~direct[s]) =>
                 stdout'[s] = Append(stdout[s], Ack(event'[s].id))
          /\ (pc[s] = "insert" /\ pc'[s] # "insert" /\ store' # store) =>
                 /\ store' = Append(store, Row(event[s], embedding[s]))
                 /\ ~direct[s] => Last(stdout[s]) = Ack(event[s].id)]_vars

\* Process 1 in plugin mode has accepted and inserted e1 and then e2, in
\* the order of its lines.
C16_Witness ==
    /\ ~direct[1]
    /\ stdout[1] = <<Ack("e1"), Ack("e2")>>
    /\ Len(store) = 2 /\ store[1].id = "e1" /\ store[2].id = "e2"
    /\ lines[2] = nread[2] /\ nparsed[2] = 0

\* C21: every step leaves each row of the table where it was and as it
\* was, with its id, pubkey, created_at, kind, content, tags and embedding:
\* rows are added, never changed and never removed.
C21_RowsNeverChange ==
    [][/\ Len(store') >= Len(store)
       /\ \A i \in 1..Len(store) : store'[i] = store[i]]_vars

\* Process 1 stored e1 as p1 wrote it; process 2, whose line carried
\* another event under the id e1, failed at the primary key; e2 was stored
\* afterwards, and the row of e1 is the one first written.
C21_Witness ==
    /\ Len(store) = 2
    /\ store[1].id = "e1" /\ store[1].pubkey = "p1" /\ store[1] = written["e1"]
    /\ store[2].id = "e2"
    /\ stderr[2] = <<[msg |-> "Failed to insert event", id |-> "e1",
                      err |-> "unique_violation"]>>

\* C22: in direct mode every "already exists, skipping" line on standard
\* output names an id that is stored (rows are never removed, so an id found
\* by the existence check is stored ever after).
C22_AlreadyExistsOnlyIfStored ==
    \A s \in Streams :
        direct[s] =>
            \A i \in 1..Len(stdout[s]) :
                stdout[s][i].msg = "already exists, skipping"
                    => Exists(store, stdout[s][i].id)

\* The INSERT of process s succeeds.
Inserts(s) == pc[s] = "insert" /\ pc'[s] # "insert" /\ store' # store

\* C23: the vector a process holds for its INSERT is the one its embedding
\* call returned for the line it is at, and a successful INSERT adds, in
\* one step, one row of kind 1 whose id, pubkey, created_at, kind, content
\* and tags are those of the event parsed from that line and whose
\* embedding is that vector.
C23_RowIsEventWithItsVector ==
    [][\A s \in Streams :
          /\ (pc[s] = "embed" /\ pc'[s] = "insert") =>
                 /\ embedding'[s] \in Vectors
                 /\ event'[s] = event[s] /\ nread'[s] = nread[s]
          /\ (pc[s] = "insert" /\ pc'[s] = "insert") =>
                 embedding'[s] = embedding[s] /\ event'[s] = event[s]
          /\ Inserts(s) =>
                 /\ Len(store') = Len(store) + 1
                 /\ event[s] \in Events /\ embedding[s] \in Vectors
                 /\ nread'[s] = nread[s]
                 /\ LET row == store'[Len(store')] IN
                      /\ row.id = event[s].id
                      /\ row.pubkey = event[s].pubkey
                      /\ row.created_at = event[s].created_at
                      /\ row.kind = event[s].kind /\ row.kind = 1
                      /\ row.content = event[s].content
                      /\ row.tags = event[s].tags
                      /\ row.embedding = embedding[s]]_vars

\* Process 1 in direct mode has added e2, and the table holds its one row
\* with the event's columns and the vector MaxVec.
C23_Witness ==
    /\ direct[1]
    /\ stdout[1] = <<Msg("Successfully added event", "e2")>>
    /\ Len(store) = 1
    /\ store[1] = [id |-> "e2", pubkey |-> "p2", created_at |-> 200, kind |-> 1,
                   content |-> "bye", tags |-> {"t"}, embedding |-> MaxVec]

\* C24: in plugin mode a step that parses a line appends the accept response
\* of that line's event to standard output and no other step writes to it,
\* so the output is the accept responses of the parsed lines in input order
\* and holds no status line.
C24_PluginOutputIsAcksOnly ==
    [][\A s \in Streams :
          ~direct[s] =>
              /\ stdout'[s] = IF nparsed'[s] # nparsed[s]
                                THEN Append(stdout[s], Ack(event'[s].id))
                                ELSE stdout[s]
              /\ \A i \in 1..Len(stdout'[s]) :
                     stdout'[s][i] \in {Ack(id) : id \in Ids}]_vars

\* Process 1 in plugin mode, alone at work, has added e1 from its first
\* line and skipped its second, e1 again: its output is the two accept
\* responses.
C24_Witness ==
    /\ ~direct[1]
    /\ nread[1] = 2 /\ pc[1] = "read"
    /\ stdout[1] = <<Ack("e1"), Ack("e1")>>
    /\ stderr[1] = <<>>
    /\ Len(store) = 1 /\ store[1].id = "e1"
    /\ nparsed[2] = 0 /\ nread[2] = lines[2]

(* ------------------------- properties: search -------------------------- *)

\* The filter predicates a request carries, in the order pubkey, kind,
\* tags-exact, and the values it gives them.
PresentPredicates(sq) ==
    IF sq.filters = None THEN <<>>
    ELSE LET f == sq.filters[1] IN
         (IF f.pubkey # None THEN <<"pubkey">> ELSE <<>>)
           \o (IF f.kind # None THEN <<"kind">> ELSE <<>>)
           \o (IF f.tags # None /\ f.tags[1].exact # None THEN <<"tags">> ELSE <<>>)

PresentValues(sq) ==
    IF sq.filters = None THEN <<>>
    ELSE LET f == sq.filters[1] IN
         (IF f.pubkey # None THEN <<Bind("text", f.pubkey[1])>> ELSE <<>>)
           \o (IF f.kind # None THEN <<Bind("int4", f.kind[1])>> ELSE <<>>)
           \o (IF f.tags # None /\ f.tags[1].exact # None
                 THEN <<Bind("jsonb", f.tags[1].exact[1])>> ELSE <<>>)

IsColumn(lexeme) == lexeme \in {"pubkey", "kind", "tags"}

IsPlaceholder(lexeme) == PlaceholderNo(lexeme) # 0

\* The columns a WHERE clause tests, in the order of the text.
ClauseColumns(sql) == SelectSeq(WhereClause(sql), IsColumn)

\* The values bound to the placeholders of a WHERE clause, in the order of
\* the text.
ClauseValues(q) ==
    LET ph == SelectSeq(WhereClause(q.sql), IsPlaceholder)
    IN  [k \in 1..Len(ph) |-> q.binds[PlaceholderNo(ph[k])]]

Occurrences(sql, lexeme) == Cardinality({i \in 1..Len(sql) : sql[i] = lexeme})

Built(h) == spc[h] \in {"ranked", "count"}

\* C5: the WHERE clause of each statement tests the columns of the request's
\* present filters in the order pubkey, kind, tags, and holds nothing else:
\* four lexemes and one bound value for each present filter, none for an
\* absent one.
C5_PredicateOrder ==
    \A h \in Searches :
        LET present == PresentPredicates(search_query[h]) IN
        /\ Built(h) =>
             /\ ClauseColumns(qb[h].sql) = present
             /\ Len(WhereClause(qb[h].sql)) = 4 * Len(present)
             /\ Len(qb[h].binds) = 4 + Len(present)
        /\ spc[h] = "count" =>
             /\ ClauseColumns(count_qb[h].sql) = present
             /\ Len(WhereClause(count_qb[h].sql)) = 4 * Len(present)
             /\ Len(count_qb[h].binds) = Len(present)

\* Both statements are built for a request with a pubkey and a kind filter
\* and a tags filter that has no exact document.
C5_Witness ==
    \E h \in Searches :
        /\ spc[h] = "count"
        /\ search_query[h].filters =
               Some(SearchFilters(Some("p2"), Some(7), Some(TagFilters(None))))
        /\ ClauseColumns(qb[h].sql) = <<"pubkey", "kind">>

\* A WHERE clause of n predicates is well-formed in the text sql: WHERE
\* occurs once when n >= 1 and not at all otherwise, AND occurs n-1 times,
\* and the lexeme before the k-th tested column is WHERE for the first and
\* AND for the others.
WellFormed(sql, n) ==
    LET w == WhereClause(sql)
        cols == {i \in 1..Len(w) : IsColumn(w[i])}
    IN  /\ Occurrences(sql, "WHERE") = (IF n >= 1 THEN 1 ELSE 0)
        /\ Occurrences(sql, "AND") = (IF n >= 1 THEN n - 1 ELSE 0)
        /\ Cardinality(cols) = n
        /\ \A i \in cols :
             /\ i > 1
             /\ w[i - 1] = (IF \A j \in cols : j >= i THEN "WHERE" ELSE "AND")

\* C6: for every subset of present predicates both statements are
\* well-formed, and with no predicate emitted neither holds WHERE or AND.
C6_WhereAndComposition ==
    \A h \in Searches :
        LET n == Len(PresentPredicates(search_query[h])) IN
        /\ Built(h) => WellFormed(qb[h].sql, n)
        /\ spc[h] = "count" => WellFormed(count_qb[h].sql, n)

\* Both statements are built for a request with a kind filter and a tags
\* document and no pubkey: WHERE comes before kind, AND before tags.
C6_Witness ==
    \E h \in Searches :
        /\ spc[h] = "count"
        /\ PresentPredicates(search_query[h]) = <<"kind", "tags">>
        /\ WhereClause(count_qb[h].sql) =
               <<"WHERE", "kind", "=", "$1", "AND", "tags", "@>", "$2">>

\* The text of a WHERE clause with the number of each placeholder left out.
Unnumbered(w) ==
    [i \in 1..Len(w) |-> IF IsPlaceholder(w[i]) THEN "$" ELSE w[i]]

\* C7: the WHERE clause of the count statement is that of the ranked
\* statement, the same predicates in the same order with the same values
\* bound to them, and the count statement has no vector term, no ORDER BY,
\* no LIMIT and no OFFSET.
C7_CountWhereIsRankedWhere ==
    \A h \in Searches :
        spc[h] = "count" =>
            /\ Unnumbered(WhereClause(count_qb[h].sql))
                   = Unnumbered(WhereClause(qb[h].sql))
            /\ ClauseValues(count_qb[h]) = ClauseValues(qb[h])
            /\ \A x \in {"<=>", "embedding", "ORDER", "LIMIT", "OFFSET"} :
                   Occurrences(count_qb[h].sql, x) = 0
            /\ \A i \in 1..Len(count_qb[h].binds) :
                   count_qb[h].binds[i].ty \notin {"vector", "int8"}

\* Both statements are built for a request with all three filters.
C7_Witness ==
    \E h \in Searches :
        /\ spc[h] = "count"
        /\ ClauseValues(count_qb[h]) =
               <<Bind("text", "p1"), Bind("int4", 1), Bind("jsonb", {"t"})>>
        /\ ClauseValues(qb[h]) = ClauseValues(count_qb[h])

\* C8: the text of both statements is that built for any other request
\* with the same present filters, whatever its query text (and so its
\* vector), pubkey, kind, tag document, limit and offset.
C8_TextDependsOnPresenceOnly ==
    \A h \in Searches :
        Built(h) =>
            \A sq \in {x \in BuildQueries :
                         PresentPredicates(x) = PresentPredicates(search_query[h])} :
                /\ spc[h] = "count" => BuildCount(sq).sql = count_qb[h].sql
                /\ \A v \in Vectors :
                     BuildRanked(sq, v, UnwrapOr(sq.limit, DefaultLimit),
                                 UnwrapOr(sq.offset, DefaultOffset)).sql = qb[h].sql

\* Both statements are built for a request with all three filters, from
\* which other requests differ in every value.
C8_Witness ==
    \E h \in Searches :
        /\ spc[h] = "count"
        /\ search_query[h] =
               SearchQuery("world", Some(2), None,
                   Some(SearchFilters(Some("p2"), Some(7), Some(TagFilters(Some({"t"}))))))
        /\ embedding_vec[h] = 1
        /\ \E sq \in BuildQueries :
             /\ PresentPredicates(sq) = PresentPredicates(search_query[h])
             /\ sq.query # "world" /\ sq.limit = Some(1) /\ sq.offset = Some(1)
             /\ PresentValues(sq) =
                    <<Bind("text", "p1"), Bind("int4", 1), Bind("jsonb", NoTags)>>

\* A row satisfies the filters of a request: each present one, all together.
Satisfies(row, filters) ==
    \/ filters = None
    \/ LET f == filters[1] IN
         /\ f.pubkey # None => row.pubkey = f.pubkey[1]
         /\ f.kind # None => row.kind = f.kind[1]
         /\ (f.tags # None /\ f.tags[1].exact # None) =>
                f.tags[1].exact[1] \subseteq row.tags

\* The rows of the table s that satisfy the filters.
MatchCount(s, filters) ==
    Cardinality({i \in 1..Len(s) : Satisfies(s[i], filters)})

\* The table as it was when handler h's count statement ran.
CountedStore(h) == SubSeq(store, 1, counted_at[h])

Answered(h) == spc[h] = "done" /\ response[h].ok

\* C9: the total a search returns is the number of rows that satisfied its
\* filters when the count statement ran, which is the answer to the count
\* statement of every request that differs from it in limit and offset
\* alone; so with the table unchanged the total is the same for every limit
\* and offset.
C9_TotalIgnoresPagination ==
    \A h \in Searches :
        Answered(h) =>
            /\ response[h].value.total
                   = MatchCount(CountedStore(h), search_query[h].filters)
            /\ \A l, o \in {None, Some(0), Some(1), Some(2)} :
                 ExecCount(CountedStore(h),
                           BuildCount([search_query[h] EXCEPT !.limit = l, !.offset = o]))
                     = response[h].value.total

\* A search with limit 1 and no filters over an unchanged table of two rows
\* has returned one row and the total 2.
C9_Witness ==
    \E h \in Searches :
        /\ Answered(h)
        /\ ranked_at[h] = counted_at[h] /\ Len(store) = 2
        /\ search_query[h].limit = Some(1) /\ search_query[h].filters = None
        /\ Len(response[h].value.results) = 1
        /\ response[h].value.total = 2

\* C10: every row a search returns, or holds from its ranked statement,
\* satisfies every filter of the request, and the returned total is the
\* number of stored rows that satisfied them all when they were counted.
C10_ResultsSatisfyFilters ==
    \A h \in Searches :
        /\ spc[h] = "count" =>
             \A i \in 1..Len(results[h]) :
                 Satisfies(results[h][i], search_query[h].filters)
        /\ Answered(h) =>
             /\ \A i \in 1..Len(response[h].value.results) :
                    Satisfies(response[h].value.results[i], search_query[h].filters)
             /\ response[h].value.total
                    = Cardinality({i \in 1..counted_at[h] :
                                     Satisfies(store[i], search_query[h].filters)})

\* A search with the filter pubkey = p1 over a table holding an event of p1
\* and one of p2 has returned the event of p1 alone, with the total 1.
C10_Witness ==
    \E h \in Searches :
        /\ Answered(h)
        /\ search_query[h].filters = Some(SearchFilters(Some("p1"), None, None))
        /\ counted_at[h] = 2
        /\ {store[i].pubkey : i \in 1..2} = {"p1", "p2"}
        /\ Len(response[h].value.results) = 1
        /\ response[h].value.results[1].pubkey = "p1"
        /\ response[h].value.total = 1

\* The similarities of a sequence of results never increase.
NonIncreasing(rs) ==
    \A i \in 1..(Len(rs) - 1) : rs[i].similarity >= rs[i + 1].similarity

\* The stored row a result was read from.
StoredRow(result) == store[CHOOSE i \in 1..Len(store) : store[i].id = result.id]

\* C11: the rows a search holds from its ranked statement, and the rows it
\* returns, are in an order in which similarity never increases from one
\* result to the next, and the similarity of each is 1 minus the distance
\* of its stored vector to the vector of the query text.
C11_SimilarityNonIncreasing ==
    \A h \in Searches :
        /\ spc[h] = "count" =>
             /\ NonIncreasing(results[h])
             /\ \A i \in 1..Len(results[h]) :
                    results[h][i].similarity
                        = 1 - Distance(StoredRow(results[h][i]).embedding,
                                       embedding_vec[h])
        /\ Answered(h) => NonIncreasing(response[h].value.results)

\* A search has returned two rows, the first nearer to the query vector
\* than the second.
C11_Witness ==
    \E h \in Searches :
        /\ Answered(h)
        /\ Len(response[h].value.results) = 2
        /\ response[h].value.results[1].similarity
               > response[h].value.results[2].similarity

\* The embedding call fails: the request does not get through, or what comes
\* back is no EmbeddingResponse.
ProviderFailed(r) == ~r.sent \/ ~r.body.parses

Called(h) == spc[h] \notin {"off", "idle", "embedding"}

C18_NoPartialResults ==
    \A h \in Searches :
        /\ spc[h] = "done" =>
             /\ response[h].ok <=> ops[h] = <<Op("ranked", TRUE), Op("count", TRUE)>>
             /\ (\E i \in 1..Len(ops[h]) : ~ops[h][i].ok) => response[h] = Err("store")
             /\ ~response[h].ok => response[h].value = NoResult
        /\ spc[h] # "done" => response[h] = NoResponse

\* A search without filters got its rows from a table of two, then had its
\* count statement fail, and has returned the store error.
C18_Witness ==
    \E h \in Searches :
        /\ spc[h] = "done"
        /\ ops[h] = <<Op("ranked", TRUE), Op("count", FALSE)>>
        /\ search_query[h].filters = None /\ ranked_at[h] = 2
        /\ response[h] = Err("store")

\* C19: a search whose provider reply deserialized with an empty array of
\* vectors has returned the embedding error.
C19_EmptyResultIsError ==
    \A h \in Searches :
        ( /\ Called(h)
          /\ provider[h].sent /\ provider[h].body.parses
          /\ provider[h].body.response = <<>> )
        => spc[h] = "done" /\ response[h] = Err("embedding")

\* C20: a step of a search handler, whatever it is and whatever the other
\* handlers and the ingestion process are at, leaves the table as it was.
C20_SearchIsReadOnly ==
    [][(\E h \in Searches : spc'[h] # spc[h]) => store' = store]_vars

\* Two searches have run over a table of two rows: one has returned a
\* result with the total 2, the other had its count statement fail and has
\* returned the store error; the table holds its two rows.
C20_Witness ==
    /\ spc[1] = "done" /\ response[1].ok
    /\ response[1].value.total = 2
    /\ spc[2] = "done" /\ response[2] = Err("store")
    /\ ops[2] = <<Op("ranked", TRUE), Op("count", FALSE)>>
    /\ Len(store) = 2

Max(a, b) == IF a >= b THEN a ELSE b

\* The number of rows a page of limit lim at offset off holds of total rows.
PageSize(total, lim, off) == Min(lim, Max(0, total - off))

\* No row was written between the two statements of handler h.
NoWriteBetween(h) == ranked_at[h] = counted_at[h]

\* C25: a search whose two statements saw the same table has returned
\* min(limit, max(0, total - offset)) rows, so no more than limit and no
\* more than total.
C25_PageSizeWithoutWrites ==
    \A h \in Searches :
        (Answered(h) /\ NoWriteBetween(h)) =>
            LET r == response[h].value IN
            /\ r.limit >= 0 /\ r.offset >= 0
            /\ Len(r.results) = PageSize(r.total, r.limit, r.offset)
            /\ Len(r.results) <= r.limit
            /\ Len(r.results) <= r.total

\* A search with offset 1, the default limit and no filters over an
\* unchanged table of two rows has returned one row and the total 2.
C25_Witness ==
    \E h \in Searches :
        /\ Answered(h) /\ NoWriteBetween(h)
        /\ search_query[h].limit = None /\ search_query[h].offset = Some(1)
        /\ search_query[h].filters = None
        /\ Len(response[h].value.results) = 1
        /\ response[h].value.total = 2

\* The other half of C25, a state that can be reached: a row was inserted
\* between the two statements of a search, which has returned fewer rows
\* than its total, limit and offset give.
C25_Disagreement ==
    \E h \in Searches :
        /\ Answered(h) /\ ranked_at[h] < counted_at[h]
        /\ Len(response[h].value.results)
               < PageSize(response[h].value.total, response[h].value.limit,
                          response[h].value.offset)

====
